---- MODULE Spec2Model ----
(***************************************************************************)
(* Model of the header scanner of httpsignatures (parser.go): the Parser    *)
(* object, its three parse entry points, the byte loop of parseSignature    *)
(* and parseDigest, the per-stage byte handlers, the end-of-input handlers, *)
(* setKeyword / setKeyValue / setDigest and VerifySignatureFields.          *)
(*                                                                          *)
(* Header text is a sequence of bytes (ASCII codes), strings stored in the  *)
(* records are byte sequences too, so that the byte-class tests of the      *)
(* handlers are the comparisons the code makes.                             *)
(***************************************************************************)
EXTENDS Integers, Sequences, FiniteSets, TLC

(***************************************************************************)
(* Bounds of the model                                                      *)
(***************************************************************************)
\* most parameters ("chunks") in a generated Authorization/Signature header
MaxParams == 2
\* most parameters that follow a keyword other than the plain "Signature "
MaxLeadParams == 1
\* longest generated Digest header, in bytes
MaxDigestLen == 4
\* most parse calls made on one Parser instance (specification SpecReuse)
MaxCalls == 2
\* longest message body given to the Digest facade, in bytes
MaxBodyLen == 1
\* most spaces put in at one place of a header
MaxSpaces == 2

(***************************************************************************)
(* ASCII codes (parser.go, const block)                                     *)
(***************************************************************************)
fromA == 65
toZ == 90
froma == 97
toz == 122
equal == 61
quote == 34
space == 32
div == 44
from0 == 48
to9 == 57
min == 45
\* the brackets of the literal "(created)"
lparen == 40
rparen == 41

\* letters and digits, to write byte strings legibly
UpperCase ==
  << "A", "B", "C", "D", "E", "F", "G", "H", "I", "J", "K", "L", "M",
     "N", "O", "P", "Q", "R", "S", "T", "U", "V", "W", "X", "Y", "Z" >>
LowerCase ==
  << "a", "b", "c", "d", "e", "f", "g", "h", "i", "j", "k", "l", "m",
     "n", "o", "p", "q", "r", "s", "t", "u", "v", "w", "x", "y", "z" >>
DigitChars == << "0", "1", "2", "3", "4", "5", "6", "7", "8", "9" >>

IndexIn(tab, c) == CHOOSE i \in DOMAIN tab : tab[i] = c

\* the ASCII code of a one-character string
Ord(c) ==
  CASE c \in {UpperCase[i] : i \in DOMAIN UpperCase} -> fromA - 1 + IndexIn(UpperCase, c)
    [] c \in {LowerCase[i] : i \in DOMAIN LowerCase} -> froma - 1 + IndexIn(LowerCase, c)
    [] c \in {DigitChars[i] : i \in DOMAIN DigitChars} -> from0 - 1 + IndexIn(DigitChars, c)
    [] c = "=" -> equal
    [] c = "\"" -> quote
    [] c = " " -> space
    [] c = "," -> div
    [] c = "-" -> min
    [] c = "(" -> lparen
    [] c = ")" -> rparen
    [] c = "+" -> 43
    [] c = "/" -> 47

\* the bytes of a string given as a tuple of one-character strings
B(cs) == [i \in DOMAIN cs |-> Ord(cs[i])]

Range(s) == {s[i] : i \in DOMAIN s}

(***************************************************************************)
(* Literal strings of the code                                              *)
(***************************************************************************)
sSignature == B(<<"S","i","g","n","a","t","u","r","e">>)
sKeyId     == B(<<"k","e","y","I","d">>)
sAlgorithm == B(<<"a","l","g","o","r","i","t","h","m">>)
sHeaders   == B(<<"h","e","a","d","e","r","s">>)
sSignatureKey == B(<<"s","i","g","n","a","t","u","r","e">>)
sCreated   == B(<<"c","r","e","a","t","e","d">>)
sExpires   == B(<<"e","x","p","i","r","e","s">>)
sCreatedPseudo == B(<<"(","c","r","e","a","t","e","d",")">>)

(***************************************************************************)
(* Values: time.Time, ParsedHeader, ParsedDigestHeader, *ParserError        *)
(***************************************************************************)
\* time.Time{}: the zero instant, distinct from every time.Unix(sec, 0)
ZeroTime == [zero |-> TRUE, sec |-> 0]
Unix(sec) == [zero |-> FALSE, sec |-> sec]

EmptyParsedHeader ==
  [keyword |-> << >>, keyID |-> << >>, signature |-> << >>, algorithm |-> << >>,
   created |-> ZeroTime, expires |-> ZeroTime, headers |-> << >>]

EmptyParsedDigestHeader == [algo |-> << >>, digest |-> << >>]

\* a nil *ParserError (in the messages below "-" stands for the dash of the code)
Nil == [Message |-> "nil", arg |-> << >>, Err |-> "nil"]
\* &ParserError{Message, nil}; arg is what fmt.Sprintf puts into the message
ParserError(msg, arg) == [Message |-> msg, arg |-> arg, Err |-> "nil"]
\* &ParserError{Message, err}
WrappedError(msg, e) == [Message |-> msg, arg |-> << >>, Err |-> e]

\* NewParser(): all fields zero, params an empty map
NewParser ==
  [parsedHeader |-> EmptyParsedHeader,
   parsedDigestHeader |-> EmptyParsedDigestHeader,
   keyword |-> << >>, key |-> << >>, value |-> << >>,
   flag |-> "", params |-> {}]

\* what a handler returns: the parser as it leaves it, and its error
Out(p, e) == [p |-> p, err |-> e]

IsLetter(cur) == (cur >= fromA /\ cur <= toZ) \/ (cur >= froma /\ cur <= toz)
IsDigit(cur) == cur >= from0 /\ cur <= to9


(***************************************************************************)
(* Library functions the parser calls                                       *)
(***************************************************************************)
\* the largest value of a 32 bit signed integer (strconv.ParseInt bitSize 32)
MaxInt32 == 2147483647

\* unicode.IsSpace on an ASCII byte: '\t', '\n', '\v', '\f', '\r', ' '
IsSpace(c) == (c >= 9 /\ c <= 13) \/ c = space

\* strings.Fields: the maximal runs of non-space bytes, in order
RECURSIVE FieldsFrom(_, _, _)
FieldsFrom(s, i, cur) ==
  IF i > Len(s)
    THEN (IF cur = << >> THEN << >> ELSE << cur >>)
    ELSE IF IsSpace(s[i])
      THEN (IF cur = << >> THEN << >> ELSE << cur >>) \o FieldsFrom(s, i + 1, << >>)
      ELSE FieldsFrom(s, i + 1, Append(cur, s[i]))

Fields(s) == FieldsFrom(s, 1, << >>)

\* strings.ToUpper on ASCII text
ToUpper(s) ==
  [i \in DOMAIN s |-> IF s[i] >= froma /\ s[i] <= toz THEN s[i] - (froma - fromA) ELSE s[i]]

\* the digits of strconv.ParseInt accumulated away from zero; "range" once the
\* value leaves the 32 bit range (sign = 1: up to MaxInt32, sign = -1: down to
\* -MaxInt32 - 1)
RECURSIVE Accumulate(_, _, _, _)
Accumulate(s, i, sign, acc) ==
  IF i > Len(s) THEN [val |-> acc, err |-> "nil"]
  ELSE LET d == s[i] - from0
           lim == MaxInt32 \div 10
           last == IF sign = 1 THEN (MaxInt32 % 10) ELSE (MaxInt32 % 10) + 1
       IN IF sign * acc > lim \/ (sign * acc = lim /\ d > last)
            THEN [val |-> 0, err |-> "value out of range"]
            ELSE Accumulate(s, i + 1, sign, acc * 10 + sign * d)

\* strconv.ParseInt(s, 10, 32): an optional sign, then decimal digits only
ParseInt(s) ==
  LET signed == s # << >> /\ s[1] \in {43, min}
      digits == IF signed THEN Tail(s) ELSE s
      sign == IF signed /\ s[1] = min THEN -1 ELSE 1
  IN IF digits = << >> \/ \E i \in DOMAIN digits : ~IsDigit(digits[i])
       THEN [val |-> 0, err |-> "invalid syntax"]
       ELSE Accumulate(digits, 1, sign, 0)

(***************************************************************************)
(* The setters                                                              *)
(***************************************************************************)
\* getValueType with the string keys listed instead of the integer keys
getValueTypeListed(p) ==
  IF p.key \in {sKeyId, sAlgorithm, sHeaders, sSignatureKey} THEN "string" ELSE "int"

getValueType(p) ==
  IF p.key = sCreated \/ p.key = sExpires THEN "int" ELSE "string"

setKeyword(p) ==
  IF sSignature # p.keyword
    THEN Out(p, ParserError("invalid Authorization header, must start from Signature keyword", << >>))
    ELSE Out([p EXCEPT !.parsedHeader.keyword = sSignature], Nil)

\* intToTime that does not look at the error of strconv.ParseInt
intToTimeUnchecked(v) == [t |-> Unix(ParseInt(v).val), err |-> "nil"]

\* the time and the error of intToTime(v)
intToTime(v) ==
  LET r == ParseInt(v)
  IN IF r.err # "nil" THEN [t |-> Unix(0), err |-> r.err]
                      ELSE [t |-> Unix(r.val), err |-> "nil"]

\* setKeyValue once the value is known to be new: mark the key, store the value
storeKeyValue(p) ==
  LET k == p.key
      marked == [p EXCEPT !.params = @ \cup {k}]
      done(q) == Out([q EXCEPT !.key = << >>, !.value = << >>], Nil)
      t == intToTime(p.value)
  IN IF k = sKeyId THEN done([marked EXCEPT !.parsedHeader.keyID = p.value])
     ELSE IF k = sAlgorithm THEN done([marked EXCEPT !.parsedHeader.algorithm = p.value])
     ELSE IF k = sHeaders THEN done([marked EXCEPT !.parsedHeader.headers = Fields(p.value)])
     ELSE IF k = sSignatureKey THEN done([marked EXCEPT !.parsedHeader.signature = p.value])
     ELSE IF k = sCreated
       THEN IF t.err # "nil"
              THEN Out([marked EXCEPT !.parsedHeader.created = t.t],
                       WrappedError("wrong 'created' param value", t.err))
              ELSE done([marked EXCEPT !.parsedHeader.created = t.t])
     ELSE IF k = sExpires
       THEN IF t.err # "nil"
              THEN Out([marked EXCEPT !.parsedHeader.expires = t.t],
                       WrappedError("wrong 'expires' param value", t.err))
              ELSE done([marked EXCEPT !.parsedHeader.expires = t.t])
     ELSE done(marked)

\* setKeyValue without the test of the visited-parameter set
setKeyValueOverwrites(p) ==
  IF Len(p.value) = 0 THEN Out(p, ParserError("empty value for key '%s'", p.key))
  ELSE storeKeyValue(p)

\* setKeyValue without the test for an empty value
setKeyValueStoresEmpty(p) ==
  IF p.key \in p.params THEN Out(p, ParserError("duplicate param '%s'", p.key))
  ELSE storeKeyValue(p)

setKeyValue(p) ==
  IF Len(p.value) = 0 THEN Out(p, ParserError("empty value for key '%s'", p.key))
  ELSE IF p.key \in p.params THEN Out(p, ParserError("duplicate param '%s'", p.key))
  ELSE storeKeyValue(p)

\* setDigest without the test for an empty value
setDigestAny(p) ==
  Out([p EXCEPT !.parsedDigestHeader.algo = ToUpper(p.key),
                !.parsedDigestHeader.digest = p.value,
                !.key = << >>, !.value = << >>], Nil)

setDigest(p) ==
  IF Len(p.value) = 0
    THEN Out(p, ParserError("empty digest value", << >>))
    ELSE Out([p EXCEPT !.parsedDigestHeader.algo = ToUpper(p.key),
                       !.parsedDigestHeader.digest = p.value,
                       !.key = << >>, !.value = << >>], Nil)

(***************************************************************************)
(* The byte handlers, one per scanner stage                                 *)
(***************************************************************************)
parseKeyword(p, cur) ==
  IF IsLetter(cur) THEN Out([p EXCEPT !.keyword = Append(@, cur)], Nil)
  ELSE IF cur = space /\ Len(p.keyword) > 0 THEN setKeyword([p EXCEPT !.flag = "param"])
  ELSE Out(p, Nil)

\* the stage after the key that takes every value for a quoted string
valueStageQuoted(p) == "quote"

\* the stage that follows '=' for the key read so far
valueStage(p) == IF getValueType(p) = "string" THEN "quote" ELSE "intValue"

parseKey(p, cur) ==
  IF IsLetter(cur) THEN Out([p EXCEPT !.key = Append(@, cur)], Nil)
  ELSE IF cur = equal THEN Out([p EXCEPT !.flag = valueStage(p)], Nil)
  ELSE IF cur = space /\ Len(p.key) > 0 THEN Out([p EXCEPT !.flag = "equal"], Nil)
  ELSE IF cur # space THEN Out(p, ParserError("found '%s' - unsupported symbol in key", << cur >>))
  ELSE Out(p, Nil)

parseAlgorithm(p, cur) ==
  IF IsLetter(cur) \/ IsDigit(cur) \/ cur = min THEN Out([p EXCEPT !.key = Append(@, cur)], Nil)
  ELSE IF cur = equal THEN Out([p EXCEPT !.flag = "stringRawValue"], Nil)
  ELSE Out(p, ParserError("found '%s' - unsupported symbol in algorithm", << cur >>))

parseEqual(p, cur) ==
  IF cur = equal THEN Out([p EXCEPT !.flag = valueStage(p)], Nil)
  ELSE IF cur = space THEN Out(p, Nil)
  ELSE Out(p, ParserError("found '%s' - unsupported symbol, expected '=' or space symbol", << cur >>))

parseQuote(p, cur) ==
  IF cur = quote THEN Out([p EXCEPT !.flag = "stringValue"], Nil)
  ELSE IF cur = space THEN Out(p, Nil)
  ELSE Out(p, ParserError("found '%s' - unsupported symbol, expected '\"' or space symbol", << cur >>))

parseStringValue(p, cur) ==
  IF cur # quote THEN Out([p EXCEPT !.value = Append(@, cur)], Nil)
  ELSE setKeyValue([p EXCEPT !.flag = "div"])

parseIntValue(p, cur) ==
  IF IsDigit(cur) THEN Out([p EXCEPT !.value = Append(@, cur)], Nil)
  ELSE IF cur = space
    THEN IF Len(p.value) = 0 THEN Out(p, Nil)
                             ELSE setKeyValue([p EXCEPT !.flag = "div"])
  ELSE IF cur = div THEN setKeyValue([p EXCEPT !.flag = "param"])
  ELSE Out(p, Nil)

\* parseStringRawValue that keeps '=' out of the value
parseStringRawValueUnpadded(p, cur) ==
  IF cur = equal THEN Out(p, Nil) ELSE Out([p EXCEPT !.value = Append(@, cur)], Nil)

parseStringRawValue(p, cur) == Out([p EXCEPT !.value = Append(@, cur)], Nil)

parseDiv(p, cur) ==
  IF cur = div THEN Out([p EXCEPT !.flag = "param"], Nil)
  ELSE IF cur = space THEN Out(p, Nil)
  ELSE Out(p, ParserError("found '%s' - unsupported symbol, expected ',' or space symbol", << cur >>))

(***************************************************************************)
(* End of input                                                             *)
(***************************************************************************)
\* handleSignatureEOF that accepts the end of the text at the start of param
handleSignatureEOFLenient(p) ==
  CASE p.flag = "keyword" -> setKeyword(p)
    [] p.flag = "param" ->
         IF Len(p.key) = 0
           THEN Out(p, Nil)
           ELSE Out(p, ParserError("unexpected end of header, expected '=' symbol and field value", << >>))
    [] p.flag = "equal" -> Out(p, ParserError("unexpected end of header, expected field value", << >>))
    [] p.flag = "quote" ->
         Out(p, ParserError("unexpected end of header, expected '\"' symbol and field value", << >>))
    [] p.flag = "stringValue" -> Out(p, ParserError("unexpected end of header, expected '\"' symbol", << >>))
    [] p.flag = "intValue" -> setKeyValue(p)
    [] OTHER -> Out(p, Nil)

handleSignatureEOF(p) ==
  CASE p.flag = "keyword" -> setKeyword(p)
    [] p.flag = "param" ->
         IF Len(p.key) = 0
           THEN Out(p, ParserError("unexpected end of header, expected parameter", << >>))
           ELSE Out(p, ParserError("unexpected end of header, expected '=' symbol and field value", << >>))
    [] p.flag = "equal" -> Out(p, ParserError("unexpected end of header, expected field value", << >>))
    [] p.flag = "quote" ->
         Out(p, ParserError("unexpected end of header, expected '\"' symbol and field value", << >>))
    [] p.flag = "stringValue" -> Out(p, ParserError("unexpected end of header, expected '\"' symbol", << >>))
    [] p.flag = "intValue" -> setKeyValue(p)
    [] OTHER -> Out(p, Nil)

handleDigestEOF(p) ==
  IF p.flag = "algorithm"
    THEN Out(p, ParserError("unexpected end of header, expected digest value", << >>))
    ELSE IF p.flag = "stringRawValue" THEN setDigest(p) ELSE Out(p, Nil)

(***************************************************************************)
(* One iteration of the byte loops: the switch on p.flag                    *)
(***************************************************************************)
signatureByte(p, cur) ==
  CASE p.flag = "keyword" -> parseKeyword(p, cur)
    [] p.flag = "param" -> parseKey(p, cur)
    [] p.flag = "equal" -> parseEqual(p, cur)
    [] p.flag = "quote" -> parseQuote(p, cur)
    [] p.flag = "stringValue" -> parseStringValue(p, cur)
    [] p.flag = "intValue" -> parseIntValue(p, cur)
    [] p.flag = "div" -> parseDiv(p, cur)
    [] OTHER -> Out(p, ParserError("unexpected parser stage", << >>))

digestByte(p, cur) ==
  CASE p.flag = "algorithm" -> parseAlgorithm(p, cur)
    [] p.flag = "stringRawValue" -> parseStringRawValue(p, cur)
    [] OTHER -> Out(p, ParserError("unexpected parser stage", << >>))

\* the tail of parseSignature: the "(created)" default and the returned record
defaultHeaders(p) ==
  IF Len(p.parsedHeader.headers) = 0
    THEN [p EXCEPT !.parsedHeader.headers = Append(@, sCreatedPseudo)]
    ELSE p

\* VerifySignatureFields without the test of the signature
VerifySignatureFieldsKeyIdOnly(p) ==
  IF p.parsedHeader.keyID = << >> THEN ParserError("keyId is not set in header", << >>)
  ELSE Nil

VerifySignatureFields(p) ==
  IF p.parsedHeader.keyID = << >> THEN ParserError("keyId is not set in header", << >>)
  ELSE IF p.parsedHeader.signature = << >> THEN ParserError("signature is not set in header", << >>)
  ELSE Nil

(***************************************************************************)
(* The header texts the parser is run on                                    *)
(***************************************************************************)
\* values and keys of the generated parameters
vA == B(<<"a">>)
vB == B(<<"b">>)
vS == B(<<"s">>)
vG == B(<<"g">>)
vV == B(<<"v">>)
vFields == B(<<"d"," "," ","a">>)
vBlank == B(<<" ">>)
v1 == B(<<"1">>)
v2 == B(<<"2">>)
v3 == B(<<"3">>)
v1a2 == B(<<"1","a","2">>)
v1e2 == B(<<"1","=","2">>)
vMax == B(<<"2","1","4","7","4","8","3","6","4","7">>)
vOver == B(<<"2","1","4","7","4","8","3","6","4","8">>)
kX == B(<<"x">>)
kDash == B(<<"k","-">>)

\* one parameter of a generated header: its key, its value and how it is written
P(k, form, v) == [k |-> k, form |-> form, v |-> v]

\* the bytes of a parameter
RenderParam(c) ==
  CASE c.form = "str"    -> c.k \o << equal, quote >> \o c.v \o << quote >>
    [] c.form = "strsp"  -> << space >> \o c.k \o << space, equal, space, quote >> \o c.v \o << quote, space >>
    [] c.form = "raw"    -> c.k \o << equal >> \o c.v
    [] c.form = "rawsp"  -> << space >> \o c.k \o << space, equal, space >> \o c.v \o << space >>
    [] c.form = "open"   -> c.k \o << equal, quote >> \o c.v
    [] c.form = "bare"   -> c.k
    [] c.form = "baresp" -> c.k \o << space >>
    [] c.form = "strx"   -> c.k \o << equal, quote >> \o c.v \o << quote >> \o kX
    [] c.form = "noeq"   -> c.k \o << space, quote >> \o c.v \o << quote >>

Params ==
  { P(sKeyId, "str", vA), P(sKeyId, "strsp", vB), P(sSignatureKey, "str", vS),
    P(sAlgorithm, "str", vG), P(sHeaders, "str", vFields), P(sHeaders, "str", vBlank),
    P(sCreated, "raw", v1), P(sCreated, "rawsp", v2), P(sExpires, "raw", v3),
    P(kX, "str", vV), P(kX, "strsp", vA),
    P(sKeyId, "str", << >>), P(kX, "str", << >>), P(sCreated, "raw", << >>), P(sCreated, "raw", v1a2),
    P(sKeyId, "open", vA), P(sKeyId, "bare", << >>), P(sKeyId, "baresp", << >>),
    P(sKeyId, "raw", << >>), P(sKeyId, "raw", vA), P(<< >>, "str", vA),
    P(kDash, "str", vA), P(sKeyId, "strx", vA), P(sKeyId, "noeq", vA),
    P(<< >>, "bare", << >>), P(sCreated, "str", v1),
    P(sCreated, "raw", vMax), P(sExpires, "raw", vOver),
    P(sCreated, "raw", v1e2) }

\* what may stand before the parameters of an Authorization header
GoodLead == sSignature \o << space >>
BadLeads ==
  { sSignature, B(<<"S","i","g","n","a","t","u","r"," ">>), sSignatureKey \o << space >>,
    << space >> \o sSignature \o << space >>,
    B(<<"S","i","g","-","n","a","t","u","r","e"," ">>) }

ParamLists(n) == UNION {[1..m -> Params] : m \in 0..n}

RECURSIVE Join(_)
Join(cs) ==
  IF cs = << >> THEN << >>
  ELSE IF Len(cs) = 1 THEN RenderParam(cs[1])
  ELSE RenderParam(cs[1]) \o << div >> \o Join(Tail(cs))

\* the text of a generated header
Render(in) == in.lead \o Join(in.chunks)

SignatureInputs == {[lead |-> << >>, chunks |-> cs] : cs \in ParamLists(MaxParams)}
AuthorizationInputs ==
  {[lead |-> GoodLead, chunks |-> cs] : cs \in ParamLists(MaxParams)}
    \cup {[lead |-> l, chunks |-> cs] : l \in BadLeads, cs \in ParamLists(MaxLeadParams)}

DigestAlphabet == {froma, toZ, from0 + 5, min, equal, space, div, quote}
DigestInputs == UNION {[1..n -> DigestAlphabet] : n \in 0..MaxDigestLen}

\* the headers of the later calls on a parser that is used again
SignatureAgain ==
  { [lead |-> << >>, chunks |-> << P(sKeyId, "str", vA), P(sSignatureKey, "str", vS) >>],
    [lead |-> << >>, chunks |-> << P(sCreated, "raw", v1) >>],
    [lead |-> << >>, chunks |-> << P(kX, "str", vV) >>] }
AuthorizationAgain ==
  { [lead |-> GoodLead, chunks |-> << P(sKeyId, "str", vA) >>] }
DigestAgain == { << froma, equal, from0 + 5 >> }

NoInput == [lead |-> << >>, chunks |-> << >>]

(***************************************************************************)
(* The digest hash algorithms and the encoding of a digest                  *)
(***************************************************************************)
algoMd5 == B(<< "M", "D", "5" >>)
algoSha256 == B(<< "S", "H", "A", "-", "2", "5", "6" >>)
algoSha512 == B(<< "S", "H", "A", "-", "5", "1", "2" >>)
\* the name of the algorithm the tests register, and two never registered
testErrAlgName == B(<< "E", "R", "R" >>)
algoMd4 == B(<< "M", "D", "4" >>)
algoSha0 == B(<< "S", "H", "A", "-", "0" >>)

\* the alphabet of encoding/base64.StdEncoding, and its padding
encodeStd == B(UpperCase \o LowerCase \o DigitChars \o << "+", "/" >>)
StdPadding == equal

InAlphabet(c) == \E i \in DOMAIN encodeStd : encodeStd[i] = c
SextetOf(c) == (CHOOSE i \in DOMAIN encodeStd : encodeStd[i] = c) - 1

\* base64.StdEncoding.EncodeToString
RECURSIVE EncodeToString(_)
EncodeToString(src) ==
  IF Len(src) = 0 THEN << >>
  ELSE IF Len(src) = 1
    THEN << encodeStd[(src[1] \div 4) + 1], encodeStd[((src[1] % 4) * 16) + 1],
            StdPadding, StdPadding >>
  ELSE IF Len(src) = 2
    THEN << encodeStd[(src[1] \div 4) + 1],
            encodeStd[((src[1] % 4) * 16 + (src[2] \div 16)) + 1],
            encodeStd[((src[2] % 16) * 4) + 1], StdPadding >>
  ELSE << encodeStd[(src[1] \div 4) + 1],
          encodeStd[((src[1] % 4) * 16 + (src[2] \div 16)) + 1],
          encodeStd[((src[2] % 16) * 4 + (src[3] \div 64)) + 1],
          encodeStd[(src[3] % 64) + 1] >> \o EncodeToString(SubSeq(src, 4, Len(src)))

\* base64.StdEncoding.DecodeString: the bytes, and whether the text is
\* base64 at all (quanta of four characters, padding only at the very end)
RECURSIVE DecodeString(_)
DecodeString(s) ==
  LET a == SextetOf(s[1])
      b == SextetOf(s[2])
      c == SextetOf(s[3])
      e == SextetOf(s[4])
      corrupt == [bytes |-> << >>, err |-> "illegal base64 data"]
      rest == DecodeString(SubSeq(s, 5, Len(s)))
  IN IF Len(s) = 0 THEN [bytes |-> << >>, err |-> "nil"]
     ELSE IF Len(s) < 4 \/ ~InAlphabet(s[1]) \/ ~InAlphabet(s[2]) THEN corrupt
     ELSE IF s[3] = StdPadding
       THEN IF Len(s) = 4 /\ s[4] = StdPadding
              THEN [bytes |-> << a * 4 + (b \div 16) >>, err |-> "nil"]
              ELSE corrupt
     ELSE IF ~InAlphabet(s[3]) THEN corrupt
     ELSE IF s[4] = StdPadding
       THEN IF Len(s) = 4
              THEN [bytes |-> << a * 4 + (b \div 16), (b % 16) * 16 + (c \div 4) >>, err |-> "nil"]
              ELSE corrupt
     ELSE IF ~InAlphabet(s[4]) THEN corrupt
     ELSE IF rest.err # "nil" THEN corrupt
     ELSE [bytes |-> << a * 4 + (b \div 16), (b % 16) * 16 + (c \div 4), (c % 4) * 64 + e >>
                       \o rest.bytes,
           err |-> "nil"]

\* The hash functions. crypto/md5, crypto/sha256 and crypto/sha512 give 16,
\* 32 and 64 bytes; here they are cut down to 1, 2 and 4 bytes that depend on
\* every byte of the data and on its order, so that the encoded digests keep
\* their two, one and two padding characters.
Size(h) == CASE h = "md5" -> 1 [] h = "sha256" -> 2 [] h = "sha512" -> 4

RECURSIVE Mix(_, _)
Mix(data, acc) ==
  IF Len(data) = 0 THEN acc ELSE Mix(Tail(data), (acc * 31 + Head(data)) % 251)

Sum(h, data) == [i \in 1..Size(h) |-> (Mix(data, Size(h)) * (2 * i + 1) + i) % 256]

digestHashAlgorithmCreate(h, data) == [hash |-> Sum(h, data), err |-> "nil"]

digestHashAlgorithmVerify(h, data, digest) ==
  IF Sum(h, data) = digest THEN "nil" ELSE "wrong hash"

\* the implementations of DigestHashAlgorithm: the three of the library and
\* the failing one of the tests
Md5 == [Algorithm |-> algoMd5, h |-> "md5"]
Sha256 == [Algorithm |-> algoSha256, h |-> "sha256"]
Sha512 == [Algorithm |-> algoSha512, h |-> "sha512"]
testErrAlg == [Algorithm |-> testErrAlgName, h |-> "err"]

AlgorithmCreate(a, data) ==
  IF a.h = "err" THEN [hash |-> << >>, err |-> "create hash error"]
  ELSE digestHashAlgorithmCreate(a.h, data)

AlgorithmVerify(a, data, digest) ==
  IF a.h = "err" THEN "verify hash error"
  ELSE digestHashAlgorithmVerify(a.h, data, digest)

\* &ErrDigest{Message, Err}; arg is what fmt.Sprintf puts into the message
ErrDigest(msg, arg, e) == [Message |-> msg, arg |-> arg, Err |-> e]

\* NewDigest(): the three algorithms of the library, SHA-256 the default
NewDigest ==
  [alg |-> [n \in {algoMd5, algoSha256, algoSha512} |->
              CASE n = algoMd5 -> Md5 [] n = algoSha256 -> Sha256 [] n = algoSha512 -> Sha512],
   defaultAlg |-> algoSha256]

(***************************************************************************)
(* State                                                                    *)
(***************************************************************************)
VARIABLES
  p,        \* the Parser object
  ncalls,   \* parse calls made on p so far
  op,       \* the entry point of the current call: "auth", "sig", "digest"; "" before the first
  inp,      \* the generated header the call was given (NoInput for a Digest header)
  header,   \* its text
  pos,      \* bytes the reader has delivered
  iters,    \* iterations of the byte loop begun
  pc,       \* "idle": no call yet or pending; "scan": in the byte loop; "done": returned
  ret,      \* the ParsedHeader the call returned
  dret,     \* the ParsedDigestHeader the call returned
  err,      \* the *ParserError the call returned
  verr,     \* what VerifySignatureFields returned after the call; Pending before
  d,        \* the Digest object
  call      \* the last call on d, with what it was given and what it returned

vars == << p, ncalls, op, inp, header, pos, iters, pc, ret, dret, err, verr, d, call >>

\* the Digest object and the record of its last call
facade == << d, call >>

NoCall == [op |-> "", alg |-> << >>, body |-> << >>, header |-> << >>, out |-> << >>, err |-> Nil]

Pending == [Message |-> "pending", arg |-> << >>, Err |-> "nil"]

Init ==
  /\ p = NewParser
  /\ ncalls = 0
  /\ op = ""
  /\ inp = NoInput
  /\ header = << >>
  /\ pos = 0
  /\ iters = 0
  /\ pc = "idle"
  /\ ret = EmptyParsedHeader
  /\ dret = EmptyParsedDigestHeader
  /\ err = Nil
  /\ verr = Pending
  /\ d = NewDigest
  /\ call = NoCall

(***************************************************************************)
(* The entry points: set the first stage, refuse an empty text, else enter  *)
(* the byte loop                                                            *)
(***************************************************************************)
Enter(o, in, text, flag, emptyMsg) ==
  /\ p' = [p EXCEPT !.flag = flag]
  /\ ncalls' = ncalls + 1
  /\ op' = o
  /\ inp' = in
  /\ header' = text
  /\ pos' = 0
  /\ iters' = 0
  /\ ret' = EmptyParsedHeader
  /\ dret' = EmptyParsedDigestHeader
  /\ verr' = Pending
  /\ UNCHANGED facade
  /\ IF Len(text) = 0
       THEN pc' = "done" /\ err' = ParserError(emptyMsg, << >>)
       ELSE pc' = "scan" /\ err' = Nil

ParseAuthorizationHeader ==
  /\ pc = "idle"
  /\ \E in \in (IF ncalls = 0 THEN AuthorizationInputs ELSE AuthorizationAgain) : Enter("auth", in, Render(in), "keyword", "empty header")

ParseSignatureHeader ==
  /\ pc = "idle"
  /\ \E in \in (IF ncalls = 0 THEN SignatureInputs ELSE SignatureAgain) : Enter("sig", in, Render(in), "param", "empty header")

ParseDigestHeader ==
  /\ pc = "idle"
  /\ \E text \in (IF ncalls = 0 THEN DigestInputs ELSE DigestAgain) : Enter("digest", NoInput, text, "algorithm", "empty digest header")

(***************************************************************************)
(* The byte loops                                                           *)
(***************************************************************************)
\* one iteration of the loop of parseSignature that goes on after an error
signatureIterationGoesOn(q, text, i) ==
  IF i = Len(text)
    THEN LET o == handleSignatureEOF(q)
         IN IF o.err # Nil
              THEN [p |-> o.p, returns |-> TRUE, ret |-> EmptyParsedHeader, err |-> o.err, pos |-> i]
              ELSE [p |-> defaultHeaders(o.p), returns |-> TRUE,
                    ret |-> defaultHeaders(o.p).parsedHeader, err |-> Nil, pos |-> i]
    ELSE LET o == signatureByte(q, text[i + 1])
         IN [p |-> o.p, returns |-> FALSE, ret |-> EmptyParsedHeader, err |-> o.err, pos |-> i + 1]

\* one iteration of the loop of parseSignature that returns, with an error,
\* the record filled so far
signatureIterationPartial(q, text, i) ==
  IF i = Len(text)
    THEN LET o == handleSignatureEOF(q)
         IN IF o.err # Nil
              THEN [p |-> o.p, returns |-> TRUE, ret |-> o.p.parsedHeader, err |-> o.err, pos |-> i]
              ELSE [p |-> defaultHeaders(o.p), returns |-> TRUE,
                    ret |-> defaultHeaders(o.p).parsedHeader, err |-> Nil, pos |-> i]
    ELSE LET o == signatureByte(q, text[i + 1])
         IN [p |-> o.p, returns |-> o.err # Nil,
             ret |-> IF o.err # Nil THEN o.p.parsedHeader ELSE EmptyParsedHeader,
             err |-> o.err, pos |-> i + 1]

\* one iteration of the loop of parseSignature on parser q, with i bytes of
\* text read: the parser it leaves, whether the function returns in it and with
\* what, and the bytes read after it
signatureIteration(q, text, i) ==
  IF i = Len(text)
    THEN LET o == handleSignatureEOF(q)
         IN IF o.err # Nil
              THEN [p |-> o.p, returns |-> TRUE, ret |-> EmptyParsedHeader, err |-> o.err, pos |-> i]
              ELSE [p |-> defaultHeaders(o.p), returns |-> TRUE,
                    ret |-> defaultHeaders(o.p).parsedHeader, err |-> Nil, pos |-> i]
    ELSE LET o == signatureByte(q, text[i + 1])
         IN [p |-> o.p, returns |-> o.err # Nil, ret |-> EmptyParsedHeader, err |-> o.err, pos |-> i + 1]

\* one iteration of the loop of parseDigest
digestIteration(q, text, i) ==
  IF i = Len(text)
    THEN LET o == handleDigestEOF(q)
         IN [p |-> o.p, returns |-> TRUE, err |-> o.err, pos |-> i,
             ret |-> IF o.err # Nil THEN EmptyParsedDigestHeader ELSE o.p.parsedDigestHeader]
    ELSE LET o == digestByte(q, text[i + 1])
         IN [p |-> o.p, returns |-> o.err # Nil, ret |-> EmptyParsedDigestHeader, err |-> o.err, pos |-> i + 1]

parseSignatureLoop ==
  /\ pc = "scan"
  /\ op \in {"auth", "sig"}
  /\ LET r == signatureIteration(p, header, pos)
     IN /\ p' = r.p
        /\ pos' = r.pos
        /\ ret' = r.ret
        /\ err' = r.err
        /\ pc' = IF r.returns THEN "done" ELSE "scan"
  /\ iters' = iters + 1
  /\ UNCHANGED << ncalls, op, inp, header, dret, verr, d, call >>

parseDigestLoop ==
  /\ pc = "scan"
  /\ op = "digest"
  /\ LET r == digestIteration(p, header, pos)
     IN /\ p' = r.p
        /\ pos' = r.pos
        /\ dret' = r.ret
        /\ err' = r.err
        /\ pc' = IF r.returns THEN "done" ELSE "scan"
  /\ iters' = iters + 1
  /\ UNCHANGED << ncalls, op, inp, header, ret, verr, d, call >>

(***************************************************************************)
(* The parse functions as a whole: what a call on parser q returns          *)
(***************************************************************************)
RECURSIVE signatureLoopFrom(_, _, _)
signatureLoopFrom(q, text, i) ==
  LET r == signatureIteration(q, text, i)
  IN IF r.returns THEN r ELSE signatureLoopFrom(r.p, text, r.pos)

parseSignature(q, text) ==
  IF Len(text) = 0
    THEN [p |-> q, returns |-> TRUE, ret |-> EmptyParsedHeader,
          err |-> ParserError("empty header", << >>), pos |-> 0]
    ELSE signatureLoopFrom(q, text, 0)

RECURSIVE digestLoopFrom(_, _, _)
digestLoopFrom(q, text, i) ==
  LET r == digestIteration(q, text, i)
  IN IF r.returns THEN r ELSE digestLoopFrom(r.p, text, r.pos)

parseDigest(q, text) ==
  IF Len(text) = 0
    THEN [p |-> q, returns |-> TRUE, ret |-> EmptyParsedDigestHeader,
          err |-> ParserError("empty digest header", << >>), pos |-> 0]
    ELSE digestLoopFrom(q, text, 0)

\* the three entry points called on parser q
ParseAuthorizationHeaderOn(q, text) == parseSignature([q EXCEPT !.flag = "keyword"], text)
ParseSignatureHeaderOn(q, text) == parseSignature([q EXCEPT !.flag = "param"], text)
ParseDigestHeaderOn(q, text) == parseDigest([q EXCEPT !.flag = "algorithm"], text)

\* VerifySignatureFields called once the parse has returned
VerifyFields ==
  /\ pc = "done"
  /\ op \in {"auth", "sig"}
  /\ verr = Pending
  /\ verr' = VerifySignatureFields(p)
  /\ UNCHANGED << p, ncalls, op, inp, header, pos, iters, pc, ret, dret, err, d, call >>

\* the caller drops the parser and constructs a new one for its next header
Discard ==
  /\ pc = "done"
  /\ p' = NewParser
  /\ ncalls' = 0
  /\ op' = ""
  /\ inp' = NoInput
  /\ header' = << >>
  /\ pos' = 0
  /\ iters' = 0
  /\ pc' = "idle"
  /\ ret' = EmptyParsedHeader
  /\ dret' = EmptyParsedDigestHeader
  /\ err' = Nil
  /\ verr' = Pending
  /\ UNCHANGED facade

Next ==
  \/ ParseAuthorizationHeader
  \/ ParseSignatureHeader
  \/ ParseDigestHeader
  \/ parseSignatureLoop
  \/ parseDigestLoop
  \/ VerifyFields
  \/ Discard

\* every parse is made on a newly constructed Parser
Spec == Init /\ [][Next]_vars

\* the caller keeps the parser for its next header
Reuse ==
  /\ pc = "done"
  /\ ncalls < MaxCalls
  /\ pc' = "idle"
  /\ UNCHANGED << p, ncalls, op, inp, header, pos, iters, ret, dret, err, verr, d, call >>

NextReuse == Next \/ Reuse

\* parsers are used for up to MaxCalls headers
SpecReuse == Init /\ [][NextReuse]_vars

(***************************************************************************)
(* The Digest facade                                                        *)
(***************************************************************************)
\* Digest.Create with the encoding that leaves the padding out
DigestCreateRaw(q, alg, body) ==
  IF alg \notin DOMAIN q.alg
    THEN [out |-> << >>, err |-> ErrDigest("unsupported digest hash algorithm '%s'", alg, "nil")]
    ELSE LET r == AlgorithmCreate(q.alg[alg], body)
         IN IF r.err # "nil"
              THEN [out |-> << >>, err |-> ErrDigest("error creating digest hash '%s'", alg, r.err)]
              ELSE [out |-> alg \o << equal >>
                              \o SelectSeq(EncodeToString(r.hash), LAMBDA c : c # StdPadding),
                    err |-> Nil]

\* Digest.Create: NAME=base64(hash of the body)
DigestCreate(q, alg, body) ==
  IF alg \notin DOMAIN q.alg
    THEN [out |-> << >>, err |-> ErrDigest("unsupported digest hash algorithm '%s'", alg, "nil")]
    ELSE LET r == AlgorithmCreate(q.alg[alg], body)
         IN IF r.err # "nil"
              THEN [out |-> << >>, err |-> ErrDigest("error creating digest hash '%s'", alg, r.err)]
              ELSE [out |-> alg \o << equal >> \o EncodeToString(r.hash), err |-> Nil]

\* Digest.Verify that reads the Digest header before it looks at the body
DigestVerifyHeaderFirst(q, body, text) ==
  LET h == ParseDigestHeaderOn(NewParser, text)
      dec == DecodeString(h.ret.digest)
  IN IF h.err # Nil THEN h.err
     ELSE IF Len(body) = 0 THEN ErrDigest("empty body", << >>, "nil")
     ELSE IF h.ret.algo \notin DOMAIN q.alg
       THEN ErrDigest("unsupported digest hash algorithm '%s'", h.ret.algo, "nil")
     ELSE IF dec.err # "nil"
       THEN ErrDigest("error decode digest from base64", << >>, dec.err)
     ELSE IF AlgorithmVerify(q.alg[h.ret.algo], body, dec.bytes) # "nil"
       THEN ErrDigest("wrong digest", << >>, AlgorithmVerify(q.alg[h.ret.algo], body, dec.bytes))
     ELSE Nil

\* Digest.Verify on a message with the given body and Digest header
DigestVerify(q, body, text) ==
  LET h == ParseDigestHeaderOn(NewParser, text)
      dec == DecodeString(h.ret.digest)
  IN IF Len(body) = 0 THEN ErrDigest("empty body", << >>, "nil")
     ELSE IF h.err # Nil THEN h.err
     ELSE IF h.ret.algo \notin DOMAIN q.alg
       THEN ErrDigest("unsupported digest hash algorithm '%s'", h.ret.algo, "nil")
     ELSE IF dec.err # "nil"
       THEN ErrDigest("error decode digest from base64", << >>, dec.err)
     ELSE IF AlgorithmVerify(q.alg[h.ret.algo], body, dec.bytes) # "nil"
       THEN ErrDigest("wrong digest", << >>, AlgorithmVerify(q.alg[h.ret.algo], body, dec.bytes))
     ELSE Nil

\* Digest.SetDefaultDigestHashAlgorithm that takes any name
setDefaultAny(q, name) == [d |-> [q EXCEPT !.defaultAlg = name], err |-> Nil]

\* Digest.SetDefaultDigestHashAlgorithm: the Digest it leaves and its error
setDefault(q, name) ==
  IF name \in DOMAIN q.alg
    THEN [d |-> [q EXCEPT !.defaultAlg = name], err |-> Nil]
    ELSE [d |-> q, err |-> ErrDigest("unsupported digest hash algorithm '%s'", name, "nil")]

\* the message bodies
BodyAlphabet == {froma, toz}
Bodies == UNION {[1..n -> BodyAlphabet] : n \in 0..MaxBodyLen}

StandardAlgorithms == {algoMd5, algoSha256, algoSha512}
AlgorithmNames == StandardAlgorithms \cup {testErrAlgName, algoMd4}

\* Digest headers: those Create makes, one in small letters, and broken ones
CreatedHeaders == {DigestCreate(NewDigest, a, b).out : a \in StandardAlgorithms, b \in Bodies}
BrokenHeaders ==
  { << >>, algoMd5, algoMd5 \o << equal >>, << space >> \o algoMd5 \o B(<< "=", "A", "A", "=", "=" >>),
    algoSha0 \o B(<< "=", "A", "A", "=", "=" >>), testErrAlgName \o B(<< "=", "A", "A", "=", "=" >>),
    algoMd5 \o B(<< "=", "1", "2", "3", "4", "5", "6" >>),
    algoSha256 \o B(<< "=", "A", "A", "=", "=" >>),
    B(<< "m", "d", "5", "=" >>) \o EncodeToString(Sum("md5", << froma >>)) }
DigestHeaders == CreatedHeaders \cup BrokenHeaders

scanner == << p, ncalls, op, inp, header, pos, iters, pc, ret, dret, err, verr >>

SetDigestHashAlgorithm ==
  \E a \in {testErrAlg, Md5} :
    /\ d' = [d EXCEPT !.alg = (a.Algorithm :> a) @@ d.alg]
    /\ call' = [NoCall EXCEPT !.op = "SetDigestHashAlgorithm", !.alg = a.Algorithm]
    /\ UNCHANGED scanner

SetDefaultDigestHashAlgorithm ==
  \E name \in AlgorithmNames :
    /\ d' = setDefault(d, name).d
    /\ call' = [NoCall EXCEPT !.op = "SetDefaultDigestHashAlgorithm", !.alg = name,
                              !.err = setDefault(d, name).err]
    /\ UNCHANGED scanner

Create ==
  \E a \in AlgorithmNames, b \in Bodies :
    /\ call' = [NoCall EXCEPT !.op = "Create", !.alg = a, !.body = b,
                              !.out = DigestCreate(d, a, b).out, !.err = DigestCreate(d, a, b).err]
    /\ UNCHANGED << d, scanner >>

\* Verify on a message whose Digest header is the one just created, or any other
Verify ==
  \E b \in Bodies, text \in DigestHeaders \cup {call.out} :
    /\ call' = [NoCall EXCEPT !.op = "Verify", !.body = b, !.header = text,
                              !.err = DigestVerify(d, b, text)]
    /\ UNCHANGED << d, scanner >>

NextDigest ==
  \/ SetDigestHashAlgorithm
  \/ SetDefaultDigestHashAlgorithm
  \/ Create
  \/ Verify

\* the calls on one Digest object, in any order
SpecDigest == Init /\ [][NextDigest]_vars

(***************************************************************************)
(* What the claims speak of                                                 *)
(***************************************************************************)
\* a call of ParseAuthorizationHeader or ParseSignatureHeader has returned
SignatureReturned == pc = "done" /\ op \in {"auth", "sig"}
\* ... and it was the first call on its parser
FreshSignatureReturned == SignatureReturned /\ ncalls = 1
DigestReturned == pc = "done" /\ op = "digest"

\* the result (record, digest record, error) of the call just returned
Returned == << ret, dret, err >>

\* the result of the same call on a newly constructed Parser
OnNewParser(o, text) ==
  CASE o = "auth" -> LET r == ParseAuthorizationHeaderOn(NewParser, text)
                     IN << r.ret, EmptyParsedDigestHeader, r.err >>
    [] o = "sig" -> LET r == ParseSignatureHeaderOn(NewParser, text)
                    IN << r.ret, EmptyParsedDigestHeader, r.err >>
    [] o = "digest" -> LET r == ParseDigestHeaderOn(NewParser, text)
                       IN << EmptyParsedHeader, r.ret, r.err >>

\* C1: every call on a Parser, whatever was parsed with it before, returns
\* what the same call returns on a newly constructed Parser.
C1_SameAsOnNewParser == pc = "done" => Returned = OnNewParser(op, header)

\* the first token of a text: its first maximal run of bytes other than space
RECURSIVE TokenFrom(_, _)
TokenFrom(text, i) ==
  IF i > Len(text) \/ text[i] = space THEN << >> ELSE << text[i] >> \o TokenFrom(text, i + 1)

RECURSIVE SkipSpaces(_, _)
SkipSpaces(text, i) == IF i <= Len(text) /\ text[i] = space THEN SkipSpaces(text, i + 1) ELSE i

FirstToken(text) == TokenFrom(text, SkipSpaces(text, 1))

\* C2: ParseAuthorizationHeader on a new parser fails for every text whose
\* first token is not the literal word Signature.
C2_FailsUnlessSignatureFirst ==
  (pc = "done" /\ op = "auth" /\ ncalls = 1 /\ FirstToken(header) # sSignature) => err # Nil

(***************************************************************************)
(* The generated header as the grammar of the specification reads it        *)
(***************************************************************************)
IntKeys == {sCreated, sExpires}
RecognizedKeys == {sKeyId, sAlgorithm, sHeaders, sSignatureKey, sCreated, sExpires}

AllLetters(s) == \A i \in DOMAIN s : IsLetter(s[i])
AllDigits(s) == \A i \in DOMAIN s : IsDigit(s[i])

\* a parameter with a name and a well-formed, non-empty value: a quoted string
\* for the string keys, decimal digits for created and expires
WellFormed(c) ==
  /\ c.k # << >>
  /\ AllLetters(c.k)
  /\ c.v # << >>
  /\ \/ c.form \in {"str", "strsp"} /\ c.k \notin IntKeys /\ quote \notin Range(c.v)
     \/ c.form \in {"raw", "rawsp"} /\ c.k \in IntKeys /\ AllDigits(c.v)

\* decimal digits that denote at most 2^31 - 1 (no leading zeros are generated)
FitsInt32(v) ==
  \/ Len(v) < Len(vMax)
  \/ /\ Len(v) = Len(vMax)
     /\ \/ v = vMax
        \/ \E i \in DOMAIN v : v[i] < vMax[i] /\ \A j \in 1..(i - 1) : v[j] = vMax[j]

\* a well-formed parameter that the scanner stores without an error of its own
Storable(c) == WellFormed(c) /\ (c.k \in IntKeys => FitsInt32(c.v))

RECURSIVE SumLen(_, _)
SumLen(cs, n) == IF n = 0 THEN 0 ELSE SumLen(cs, n - 1) + Len(RenderParam(cs[n])) + 1

\* bytes read when the value of parameter j of the header is complete: its
\* closing quote, or the space, comma or end of input that ends its digits
CompletionOffset(in, j) ==
  LET c == in.chunks[j]
      n == Len(RenderParam(c))
      within == CASE c.form = "str" -> n
                  [] c.form = "strsp" -> n - 1
                  [] c.form = "raw" -> IF j = Len(in.chunks) THEN n ELSE n + 1
                  [] c.form = "rawsp" -> n
  IN Len(in.lead) + SumLen(in.chunks, j - 1) + within

\* what the parser holds for key k
StoredFor(k, h) ==
  CASE k = sKeyId -> h.keyID
    [] k = sAlgorithm -> h.algorithm
    [] k = sSignatureKey -> h.signature
    [] k = sHeaders -> h.headers
    [] k = sCreated -> h.created
    [] k = sExpires -> h.expires
    [] OTHER -> << >>

\* what a storable parameter is stored as
ValueOf(c) ==
  CASE c.k \in IntKeys -> Unix(ParseInt(c.v).val)
    [] c.k = sHeaders -> Fields(c.v)
    [] c.k \in RecognizedKeys \ (IntKeys \cup {sHeaders}) -> c.v
    [] OTHER -> << >>

\* parameter j is the first that repeats the name of an earlier one, and all
\* the text up to the end of its value is well-formed
SecondOccurrence(in, j) ==
  /\ in.lead \in {<< >>, GoodLead}
  /\ j \in DOMAIN in.chunks
  /\ \E i \in 1..(j - 1) : in.chunks[i].k = in.chunks[j].k
  /\ \A i \in 1..(j - 1) : Storable(in.chunks[i])
  /\ \A i \in 1..(j - 1) : \A m \in 1..(i - 1) : in.chunks[m].k # in.chunks[i].k
  /\ WellFormed(in.chunks[j])

FirstOccurrence(in, j) == CHOOSE i \in 1..(j - 1) : in.chunks[i].k = in.chunks[j].k

\* C3: on a new parser, a header that repeats a parameter name, with
\* well-formed non-empty values and no earlier error, is rejected with
\* "duplicate param '<key>'" when the value of the second occurrence completes;
\* the first value stays stored and no record is returned.
C3_DuplicateRejected ==
  FreshSignatureReturned =>
    \A j \in DOMAIN inp.chunks :
      SecondOccurrence(inp, j) =>
        /\ err = ParserError("duplicate param '%s'", inp.chunks[j].k)
        /\ ret = EmptyParsedHeader
        /\ pos = CompletionOffset(inp, j)
        /\ StoredFor(inp.chunks[j].k, p.parsedHeader) = ValueOf(inp.chunks[FirstOccurrence(inp, j)])

C3_Witness ==
  /\ FreshSignatureReturned
  /\ \E j \in DOMAIN inp.chunks :
       /\ SecondOccurrence(inp, j)
       /\ inp.chunks[j].k = sKeyId
       /\ inp.chunks[j].v # inp.chunks[FirstOccurrence(inp, j)].v
  /\ err.Message = "duplicate param '%s'"

\* the headers parameters of the generated header
HeadersParams == {i \in DOMAIN inp.chunks : inp.chunks[i].k = sHeaders}

\* C4: after a successful parse on a new parser the header list is
\* ["(created)"] if no headers parameter was seen, and else the value of the
\* headers parameter split on whitespace, in order.
C4_HeaderList ==
  (FreshSignatureReturned /\ err = Nil) =>
    IF HeadersParams = {}
      THEN ret.headers = << sCreatedPseudo >>
      ELSE \A i \in HeadersParams : ret.headers = Fields(inp.chunks[i].v)

\* the parameters of a header without the i-th
Without(cs, i) == [m \in 1..(Len(cs) - 1) |-> IF m < i THEN cs[m] ELSE cs[m + 1]]

\* parameter i of the generated header is an unrecognized name with a
\* well-formed quoted value, the name occurs nowhere else in the header, and
\* the header without it parses on a new parser
ExtraParam(i) ==
  /\ inp.lead # sSignature
  /\ WellFormed(inp.chunks[i])
  /\ inp.chunks[i].k \notin RecognizedKeys
  /\ \A m \in DOMAIN inp.chunks : m # i => inp.chunks[m].k # inp.chunks[i].k
  /\ OnNewParser(op, Render([inp EXCEPT !.chunks = Without(@, i)]))[3] = Nil

\* C5: adding an unrecognized parameter k="v" to a header that parses leaves
\* the result unchanged: the parse succeeds and returns the same record.
C5_UnrecognizedDropped ==
  FreshSignatureReturned =>
    \A i \in DOMAIN inp.chunks :
      ExtraParam(i) =>
        Returned = OnNewParser(op, Render([inp EXCEPT !.chunks = Without(@, i)]))

C5_Witness ==
  /\ FreshSignatureReturned
  /\ \E i \in DOMAIN inp.chunks : ExtraParam(i)
  /\ ret.keyID # << >>
  /\ err = Nil

\* C6: a parse that returns without error returns a record with a non-empty
\* keyId and a non-empty signature.
C6_RequiredFieldsAfterParse ==
  (SignatureReturned /\ err = Nil) => (ret.keyID # << >> /\ ret.signature # << >>)

\* C6 as amended: the record has a non-empty keyId and signature when the
\* parse returned without error and VerifySignatureFields, called after it on
\* the same parser, returned no error either.
C6_RequiredFieldsAfterVerify ==
  (SignatureReturned /\ err = Nil /\ verr = Nil) => (ret.keyID # << >> /\ ret.signature # << >>)

C6_Witness ==
  SignatureReturned /\ err = Nil /\ verr = Nil /\ ret.headers = << sCreatedPseudo >>

\* C7: VerifySignatureFields after a parse returns an error exactly if the
\* keyId or the signature of the record the parse returned is empty; so it
\* returns an error after a failed parse, which returned the empty record.
C7_VerifyJudgesReturnedRecord ==
  (SignatureReturned /\ verr # Pending) =>
    (verr # Nil <=> (ret.keyID = << >> \/ ret.signature = << >>))

\* the bytes the grammar allows in each stage of the scanner
Allowed(stage, cur) ==
  CASE stage = "keyword" -> IsLetter(cur) \/ cur = space
    [] stage = "param" -> IsLetter(cur) \/ cur = equal \/ cur = space
    [] stage = "equal" -> cur = equal \/ cur = space
    [] stage = "quote" -> cur = quote \/ cur = space
    [] stage = "stringValue" -> TRUE
    [] stage = "intValue" -> IsDigit(cur) \/ cur = space \/ cur = div
    [] stage = "div" -> cur = div \/ cur = space
    [] OTHER -> FALSE

\* the loop of parseSignature is about to read a byte
ReadsByte == pc = "scan" /\ op \in {"auth", "sig"} /\ pos < Len(header)
\* ... or to meet the end of the text
MeetsEnd == pc = "scan" /\ op \in {"auth", "sig"} /\ pos = Len(header)

\* C8: in every stage a byte outside the class the stage allows makes the
\* parse fail; no byte is skipped.
C8_NoByteSkipped ==
  [][(ReadsByte /\ ~Allowed(p.flag, header[pos + 1])) => err' # Nil]_vars

\* C9: end of input is accepted exactly after a closed quoted value, after a
\* completed non-empty integer value, or at the very start of param; in every
\* other state it is an error.
C9_EndAcceptedInCleanStates ==
  [][(MeetsEnd /\ ncalls = 1) =>
       (err' = Nil <=> \/ p.flag = "div"
                       \/ p.flag = "intValue" /\ p.value # << >>
                       \/ p.flag = "param" /\ p.key = << >>)]_vars

EndMessages ==
  [param |-> {"unexpected end of header, expected parameter",
              "unexpected end of header, expected '=' symbol and field value"},
   equal |-> {"unexpected end of header, expected field value"},
   quote |-> {"unexpected end of header, expected '\"' symbol and field value"},
   stringValue |-> {"unexpected end of header, expected '\"' symbol"}]

\* C9 as amended: on a new parser end of input is accepted exactly in stage
\* div (after a closed quoted value, or after an integer value ended by a
\* space), in stage intValue with a non-empty value that is then stored (its
\* key not seen before, its digits within 32 bits), and in stage keyword when
\* the keyword read is exactly Signature; in every other state, the very start
\* of param included, it is an error, which in the stages param, equal, quote
\* and stringValue names the expected token.
C9_EndAcceptedWhereHandled ==
  [][(MeetsEnd /\ ncalls = 1) =>
       /\ err' = Nil <=> \/ p.flag = "div"
                         \/ /\ p.flag = "intValue"
                            /\ p.value # << >>
                            /\ p.key \notin p.params
                            /\ AllDigits(p.value) /\ FitsInt32(p.value)
                         \/ p.flag = "keyword" /\ p.keyword = sSignature
       /\ p.flag \in DOMAIN EndMessages => err'.Message \in EndMessages[p.flag]]_vars

C9_Witness ==
  /\ FreshSignatureReturned
  /\ iters = Len(header) + 1
  /\ p.flag = "param" /\ p.key = << >>
  /\ err = ParserError("unexpected end of header, expected parameter", << >>)
  /\ p.parsedHeader.keyID # << >>

\* the place of the first '=' of a text, 0 if it has none
FirstEqual(text) ==
  IF \E i \in DOMAIN text : text[i] = equal
    THEN CHOOSE i \in DOMAIN text : text[i] = equal /\ \A j \in 1..(i - 1) : text[j] # equal
    ELSE 0

\* the text is NAME=value, NAME of letters, digits and '-', value not empty
DigestForm(text) ==
  /\ FirstEqual(text) > 0
  /\ FirstEqual(text) < Len(text)
  /\ \A i \in 1..(FirstEqual(text) - 1) : IsLetter(text[i]) \/ IsDigit(text[i]) \/ text[i] = min

\* a name with its small letters made capital
Capitalized(name) ==
  [i \in DOMAIN name |-> IF name[i] \in froma..toz THEN fromA + (name[i] - froma) ELSE name[i]]

\* C10: for a Digest header NAME=value on a new parser the parse succeeds,
\* algorithm is NAME in upper case and digest is every byte after the first
\* '=', verbatim.
C10_DigestVerbatim ==
  (DigestReturned /\ ncalls = 1 /\ DigestForm(header)) =>
    /\ err = Nil
    /\ dret.algo = Capitalized(SubSeq(header, 1, FirstEqual(header) - 1))
    /\ dret.digest = SubSeq(header, FirstEqual(header) + 1, Len(header))

C10_Witness ==
  /\ DigestReturned /\ ncalls = 1 /\ DigestForm(header)
  /\ dret.algo = << fromA >>
  /\ dret.digest = << equal, quote >>

(***************************************************************************)
(* The errors of ParseDigestHeader                                          *)
(***************************************************************************)
NameByte(b) == IsLetter(b) \/ IsDigit(b) \/ b = min

\* the bytes of the text that stand where the algorithm name is read: before
\* the first '=', or all of them when there is none
NamePart(text) ==
  IF FirstEqual(text) = 0 THEN text ELSE SubSeq(text, 1, FirstEqual(text) - 1)

\* the offset of the first byte of the name part that no name may hold, or 0
FirstForeign(text) ==
  LET n == NamePart(text)
  IN IF \E i \in DOMAIN n : ~NameByte(n[i])
       THEN CHOOSE i \in DOMAIN n : ~NameByte(n[i]) /\ \A j \in 1..(i - 1) : NameByte(n[j])
       ELSE 0

\* the error the grammar of the Digest header asks for, Nil when it asks for none
ExpectedDigestError(text) ==
  IF text = << >> THEN ParserError("empty digest header", << >>)
  ELSE IF FirstForeign(text) > 0
    THEN ParserError("found '%s' - unsupported symbol in algorithm", << text[FirstForeign(text)] >>)
  ELSE IF FirstEqual(text) = 0
    THEN ParserError("unexpected end of header, expected digest value", << >>)
  ELSE IF FirstEqual(text) = Len(text)
    THEN ParserError("empty digest value", << >>)
  ELSE Nil

\* C11: ParseDigestHeader on a new parser returns a parse error and the empty
\* record for an empty text, a text without '=', a text with a byte other
\* than a letter, a digit or '-' before the first '=', and a text that ends
\* with its first '=' (error "empty digest value").
C11_DigestErrors ==
  (DigestReturned /\ ncalls = 1 /\ ExpectedDigestError(header) # Nil) =>
    /\ err = ExpectedDigestError(header)
    /\ dret = EmptyParsedDigestHeader

C11_Witness ==
  /\ DigestReturned /\ ncalls = 1
  /\ header = << toZ, from0 + 5, min, equal >>
  /\ err = ParserError("empty digest value", << >>)
  /\ dret = EmptyParsedDigestHeader

(***************************************************************************)
(* The Digest facade: empty body, round trip, default algorithm             *)
(***************************************************************************)
\* C12: Verify fails with the digest error "empty body" whenever the body of
\* the message has length zero, whatever its Digest header holds.
C12_EmptyBodyFirst ==
  (call.op = "Verify" /\ Len(call.body) = 0) =>
    call.err = ErrDigest("empty body", << >>, "nil")

C12_Witness ==
  /\ call.op = "Verify" /\ Len(call.body) = 0
  /\ call.header = algoMd5 \o << equal >>
  /\ call.err = ErrDigest("empty body", << >>, "nil")

\* the Digest header of the verified message is what Create returns for the
\* body of the message and one of the algorithms of the library
MadeByCreate ==
  \E a \in StandardAlgorithms :
    /\ DigestCreate(d, a, call.body).err = Nil
    /\ call.header = DigestCreate(d, a, call.body).out

\* C13: for every body b and every algorithm A of MD5, SHA-256, SHA-512,
\* Verify succeeds on the message with body b and Digest header Create(A, b).
C13_RoundTrip == (call.op = "Verify" /\ MadeByCreate) => call.err = Nil

\* C13 as it holds: the same, for every body that is not empty.
C13_RoundTripOfNonEmptyBody ==
  (call.op = "Verify" /\ MadeByCreate /\ Len(call.body) > 0) => call.err = Nil

C13_Witness ==
  /\ call.op = "Verify" /\ MadeByCreate
  /\ call.body = << toz >>
  /\ call.header = DigestCreate(d, algoSha512, call.body).out
  /\ testErrAlgName \in DOMAIN d.alg
  /\ call.err = Nil

\* C14: SetDefaultDigestHashAlgorithm(name) makes name the default when name
\* is registered at the call and reports no error; when name is not
\* registered it reports an error and leaves the default and the registry as
\* they were. In both cases the registry stays as it was.
C14_DefaultOnlyIfRegistered ==
  [][call'.op = "SetDefaultDigestHashAlgorithm" =>
       /\ d'.alg = d.alg
       /\ call'.alg \in DOMAIN d.alg => (d'.defaultAlg = call'.alg /\ call'.err = Nil)
       /\ call'.alg \notin DOMAIN d.alg => (d' = d /\ call'.err # Nil)]_vars

C14_Witness ==
  /\ call.op = "SetDefaultDigestHashAlgorithm"
  /\ call.alg = algoMd4
  /\ call.err # Nil
  /\ d.defaultAlg = testErrAlgName

(***************************************************************************)
(* created and expires                                                      *)
(***************************************************************************)
\* the number that decimal digits denote
RECURSIVE Decimal(_)
Decimal(v) ==
  IF Len(v) = 0 THEN 0 ELSE Decimal(SubSeq(v, 1, Len(v) - 1)) * 10 + (v[Len(v)] - from0)

WrongValue(k) ==
  CASE k = sCreated -> "wrong 'created' param value"
    [] k = sExpires -> "wrong 'expires' param value"

\* parameter j is created or expires with decimal digits, the first of its
\* name, and all the text before it is stored without error
NumberAt(in, j) ==
  /\ in.lead \in {<< >>, GoodLead}
  /\ j \in DOMAIN in.chunks
  /\ WellFormed(in.chunks[j])
  /\ in.chunks[j].k \in IntKeys
  /\ \A i \in 1..(j - 1) : Storable(in.chunks[i]) /\ in.chunks[i].k # in.chunks[j].k
  /\ \A i \in 1..(j - 1) : \A m \in 1..(i - 1) : in.chunks[m].k # in.chunks[i].k

\* C15: a created or expires parameter with the decimal value N is stored as
\* the instant N seconds after the epoch when N <= 2^31 - 1, and returned so
\* when the parse succeeds; when N is larger the parse fails at the end of the
\* digits with "wrong 'created' param value" / "wrong 'expires' param value"
\* and returns no record.
C15_SecondsOrRangeError ==
  FreshSignatureReturned =>
    \A j \in DOMAIN inp.chunks :
      NumberAt(inp, j) =>
        LET c == inp.chunks[j]
        IN IF FitsInt32(c.v)
             THEN /\ StoredFor(c.k, p.parsedHeader) = Unix(Decimal(c.v))
                  /\ err = Nil => StoredFor(c.k, ret) = Unix(Decimal(c.v))
                  /\ err.Message # WrongValue(c.k)
             ELSE /\ err = WrappedError(WrongValue(c.k), "value out of range")
                  /\ ret = EmptyParsedHeader
                  /\ pos = CompletionOffset(inp, j)

C15_Witness ==
  /\ FreshSignatureReturned
  /\ NumberAt(inp, 1) /\ NumberAt(inp, 2)
  /\ p.parsedHeader.created = Unix(MaxInt32)
  /\ err = WrappedError("wrong 'expires' param value", "value out of range")

(***************************************************************************)
(* The stages of the scanner                                                *)
(***************************************************************************)
Stages == {"keyword", "param", "equal", "quote", "stringValue", "intValue", "div"}

Edges ==
  { << "keyword", "param" >>,
    << "param", "equal" >>, << "param", "quote" >>, << "param", "intValue" >>,
    << "equal", "quote" >>, << "equal", "intValue" >>,
    << "quote", "stringValue" >>,
    << "stringValue", "div" >>,
    << "intValue", "div" >>, << "intValue", "param" >>,
    << "div", "param" >> }

\* a step of the byte loop of an Authorization or Signature parse
ScanStep == pc = "scan" /\ op \in {"auth", "sig"} /\ iters' = iters + 1

\* C16: during the parse of an Authorization or Signature header the stage is
\* one of the seven and changes only along the listed edges; quote is entered
\* exactly for keys other than created and expires, intValue exactly for
\* created and expires; "unexpected parser stage" is never the error.
C16_StageEdges ==
  [][ScanStep =>
       /\ p.flag \in Stages /\ p'.flag \in Stages
       /\ p'.flag # p.flag => << p.flag, p'.flag >> \in Edges
       /\ (p.flag \in {"param", "equal"} /\ p'.flag = "quote") => p.key \notin IntKeys
       /\ (p.flag \in {"param", "equal"} /\ p'.flag = "intValue") => p.key \in IntKeys
       /\ err'.Message # "unexpected parser stage"]_vars

C16_Witness ==
  /\ pc = "scan" /\ op = "auth"
  /\ p.flag = "intValue"
  /\ p.key = sExpires
  /\ sKeyId \in p.params

(***************************************************************************)
(* Termination and results                                                  *)
(***************************************************************************)
InCall == pc \in {"scan", "done"}

\* C17: a call on a header of n bytes makes at most n + 1 iterations of its
\* byte loop, one per byte and a last one for the end of input; while it scans
\* it has met no error, and once it has returned with an error met at a byte,
\* that byte is the last one read.
C17_OnePassEndsAtError ==
  InCall =>
    /\ iters <= Len(header) + 1
    /\ pos <= Len(header)
    /\ pc = "scan" => (iters = pos /\ err = Nil)
    /\ (pc = "done" /\ Len(header) > 0) =>
         \/ iters = pos + 1 /\ pos = Len(header)
         \/ iters = pos /\ err # Nil

C17_Witness ==
  /\ pc = "done" /\ op = "sig"
  /\ err # Nil
  /\ 0 < iters /\ iters + 1 < Len(header)
  /\ iters = pos

\* C18: a parse that returns an error returns the empty record with it, also
\* when parameters were stored before the error.
C18_NoPartialResult ==
  (pc = "done" /\ err # Nil) => (ret = EmptyParsedHeader /\ dret = EmptyParsedDigestHeader)

C18_Witness ==
  /\ FreshSignatureReturned
  /\ err # Nil
  /\ p.parsedHeader.keyID # << >>
  /\ p.parsedHeader.signature # << >>
  /\ ret = EmptyParsedHeader

(***************************************************************************)
(* Empty values and empty keys                                              *)
(***************************************************************************)
\* parameter j has a name and an empty value: an empty quoted string, or
\* created / expires followed at once by ',' or the end of input; it is the
\* first of its name and all the text before it is stored without error
EmptyValueAt(in, j) ==
  /\ in.lead \in {<< >>, GoodLead}
  /\ j \in DOMAIN in.chunks
  /\ in.chunks[j].k # << >> /\ AllLetters(in.chunks[j].k)
  /\ in.chunks[j].v = << >>
  /\ \/ in.chunks[j].form = "str" /\ in.chunks[j].k \notin IntKeys
     \/ in.chunks[j].form = "raw" /\ in.chunks[j].k \in IntKeys
  /\ \A i \in 1..(j - 1) : Storable(in.chunks[i]) /\ in.chunks[i].k # in.chunks[j].k
  /\ \A i \in 1..(j - 1) : \A m \in 1..(i - 1) : in.chunks[m].k # in.chunks[i].k

\* what the parser holds for a key it has stored nothing for
Unset(k) == IF k \in IntKeys THEN ZeroTime ELSE << >>

\* C19: a parameter with an empty value, of a recognized or an unrecognized
\* name, makes the parse fail with "empty value for key '<key>'" where the
\* value ends; nothing is stored for the key and the key is not marked as seen.
C19_EmptyValueRejected ==
  FreshSignatureReturned =>
    \A j \in DOMAIN inp.chunks :
      EmptyValueAt(inp, j) =>
        /\ err = ParserError("empty value for key '%s'", inp.chunks[j].k)
        /\ ret = EmptyParsedHeader
        /\ pos = CompletionOffset(inp, j)
        /\ inp.chunks[j].k \notin p.params
        /\ StoredFor(inp.chunks[j].k, p.parsedHeader) = Unset(inp.chunks[j].k)

C19_Witness ==
  /\ FreshSignatureReturned
  /\ EmptyValueAt(inp, 2)
  /\ inp.chunks[2].k = sCreated
  /\ Len(inp.chunks) = 2
  /\ err = ParserError("empty value for key '%s'", sCreated)

\* C20: the empty name is never recorded in the visited-parameter set, and a
\* text with '=' where a key is expected is rejected.
C20_NoEmptyKey ==
  /\ << >> \notin p.params
  /\ (FreshSignatureReturned /\ Len(header) > 0 /\ header[1] = equal) => err # Nil

(***************************************************************************)
(* Optional spaces                                                          *)
(***************************************************************************)
Spaces(n) == [i \in 1..n |-> space]

\* the text with n spaces put in after its first `at` bytes
InsertSpaces(text, at, n) == SubSeq(text, 1, at) \o Spaces(n) \o SubSeq(text, at + 1, Len(text))

QuotesBefore(text, i) == Cardinality({j \in 1..(i - 1) : text[j] = quote})

\* the offsets of the '=' and ',' of the text that stand outside quoted values
Separators(text) ==
  {i \in DOMAIN text : text[i] \in {equal, div} /\ QuotesBefore(text, i) % 2 = 0}

\* where optional spaces may go: before and after each separator, and before
\* the first key
SpaceSites(in, text) ==
  {i - 1 : i \in Separators(text)} \cup Separators(text)
    \cup (IF Len(in.chunks) > 0 /\ Len(in.chunks[1].k) > 0 THEN {Len(in.lead)} ELSE {})

\* where a space breaks a token: between two letters of a key, or between two
\* digits of a number
InsideSites(in, text) ==
  {i \in (Len(in.lead) + 1)..(Len(text) - 1) :
     /\ QuotesBefore(text, i) % 2 = 0
     /\ \/ IsLetter(text[i]) /\ IsLetter(text[i + 1])
        \/ IsDigit(text[i]) /\ IsDigit(text[i + 1])}

\* C21: for a header accepted on a new parser, up to MaxSpaces spaces put
\* in before or after an '=' or ',' outside quoted values, or before the
\* first key, give a header that is accepted with the same record; spaces
\* put inside a key or between the digits of a number give a rejected header.
C21_SpacesIgnored ==
  (FreshSignatureReturned /\ err = Nil) =>
    /\ \A at \in SpaceSites(inp, header), n \in 1..MaxSpaces :
         OnNewParser(op, InsertSpaces(header, at, n)) = Returned
    /\ \A at \in InsideSites(inp, header), n \in 1..MaxSpaces :
         OnNewParser(op, InsertSpaces(header, at, n))[3] # Nil

====
